---- MODULE Spec2Model ----
(***************************************************************************)
(* A model of the account / ledger core of banking.py: Transaction,        *)
(* Account, CheckingAccount, SavingsAccount and Bank.                      *)
(*                                                                         *)
(* Money is an exact quantity counted in a minor unit, Unit of them to one *)
(* whole amount; every amount a caller passes is a whole number of Units   *)
(* and Unit is chosen so that balance * (rate / 12) is exact for the       *)
(* interest applications the model allows.  Calendar time is the variable  *)
(* now, a count of months; datetime.datetime.now().month is Month(now).    *)
(***************************************************************************)
EXTENDS Integers, Sequences, FiniteSets, TLC

VARIABLES accounts, now, last, hist

vars == <<accounts, now, last, hist>>

(***************************************************************************)
(* Bounds of the model.                                                    *)
(***************************************************************************)
\* accounts that create_account puts into the ledger
MaxAccounts == 2
\* accounts of a ledger that is taken up with its accounts created
FrameAccounts == 3
\* accounts and log entries together, over all accounts of such a ledger
FrameSize == 7
\* accounts plus transactions in the whole ledger
MaxSize == 6
\* interest transactions in one account
MaxInterest == 2
\* advances of the clock
MaxTicks == 1

(***************************************************************************)
(* Program constants.                                                      *)
(***************************************************************************)
WithdrawalLimit == 3
MonthsPerYear == 12
\* interest rates are counted in tenths: the rate r stands for r / RateScale
RateScale == 10
\* the highest rate that the menu of main lets through, 0.1, in tenths
InterestRateBound == 1
\* the value of _last_withdrawal_month that stands for None
NoMonth == 0

RECURSIVE Power(_, _)
Power(b, e) ==
    IF e = 0 THEN 1 ELSE b * Power(b, e - 1)

Unit == Power(RateScale * MonthsPerYear, MaxInterest)

\* datetime.datetime.now().month
Month(t) ==
    (t % MonthsPerYear) + 1

(***************************************************************************)
(* Inputs.                                                                 *)
(***************************************************************************)
Amounts == {-Unit, 0, Unit}
\* the amounts asked of an account: those above and one beyond its balance
WithdrawAmounts == Amounts \cup {9 * Unit}
InitialBalances == {-Unit, 0, 4 * Unit}
InterestRates == {-1, 1}
AccountTypes == {"checking", "Savings", "crypto"}
ClockSteps == {1, MonthsPerYear}

\* str.lower() on the account types the model passes
Lower(s) ==
    CASE s = "Savings" -> "savings"
      [] s = "Checking" -> "checking"
      [] OTHER -> s

(***************************************************************************)
(* Transaction                                                             *)
(***************************************************************************)
Transaction(transaction_type, amount, description) ==
    [transaction_type |-> transaction_type, amount |-> amount,
     description |-> description]

\* the outcome of a method of one account: the account afterwards, the
\* exception raised ("" for none) and the value returned
Outcome(account, raised, value) ==
    [account |-> account, raised |-> raised, value |-> value]

(***************************************************************************)
(* Account                                                                 *)
(***************************************************************************)
\* Account.__init__ with the bug of recording an initial balance of 0 too
NewAccountRecordsZero(kind, initial_balance, interest_rate, current_month) ==
    [kind |-> kind,
     balance |-> initial_balance,
     transactions |->
        IF initial_balance >= 0
        THEN <<Transaction("deposit", initial_balance, "Initial deposit")>>
        ELSE <<>>,
     interest_rate |-> IF kind = "Savings" THEN interest_rate ELSE 0,
     withdrawals_this_month |-> 0,
     last_withdrawal_month |->
        IF kind = "Savings" /\ initial_balance > 0 THEN current_month ELSE NoMonth]

\* Account.__init__ after the check of the initial balance; the savings
\* fields are those of SavingsAccount.__init__ and are idle in a checking
\* account
NewAccount(kind, initial_balance, interest_rate, current_month) ==
    [kind |-> kind,
     balance |-> initial_balance,
     transactions |->
        IF initial_balance > 0
        THEN <<Transaction("deposit", initial_balance, "Initial deposit")>>
        ELSE <<>>,
     interest_rate |-> IF kind = "Savings" THEN interest_rate ELSE 0,
     withdrawals_this_month |-> 0,
     last_withdrawal_month |->
        IF kind = "Savings" /\ initial_balance > 0 THEN current_month ELSE NoMonth]

\* Deposit with the bug of leaving the record out of the log
DepositUnrecorded(account, amount, description) ==
    IF amount <= 0
    THEN Outcome(account, "InvalidAmountError", 0)
    ELSE Outcome([account EXCEPT !.balance = @ + amount], "", 0)

\* Deposit with the bug of refusing only the amounts below 0
DepositAcceptsZero(account, amount, description) ==
    IF amount < 0
    THEN Outcome(account, "InvalidAmountError", 0)
    ELSE Outcome([account EXCEPT
                    !.balance = @ + amount,
                    !.transactions = Append(@, Transaction("deposit", amount, description))],
                 "", 0)

Deposit(account, amount, description) ==
    IF amount <= 0
    THEN Outcome(account, "InvalidAmountError", 0)
    ELSE Outcome([account EXCEPT
                    !.balance = @ + amount,
                    !.transactions = Append(@, Transaction("deposit", amount, description))],
                 "", 0)

\* Account.withdraw with the bug of recording the withdrawal as "transfer"
BaseWithdrawMislabelled(account, amount, description) ==
    IF amount <= 0
    THEN Outcome(account, "InvalidAmountError", 0)
    ELSE IF amount > account.balance
    THEN Outcome(account, "InsufficientFundsError", 0)
    ELSE Outcome([account EXCEPT
                    !.balance = @ - amount,
                    !.transactions = Append(@, Transaction("transfer", amount, description))],
                 "", 0)

\* Account.withdraw with the bug of not comparing the amount to the balance
BaseWithdrawUnchecked(account, amount, description) ==
    IF amount <= 0
    THEN Outcome(account, "InvalidAmountError", 0)
    ELSE Outcome([account EXCEPT
                    !.balance = @ - amount,
                    !.transactions = Append(@, Transaction("withdrawal", amount, description))],
                 "", 0)

BaseWithdraw(account, amount, description) ==
    IF amount <= 0
    THEN Outcome(account, "InvalidAmountError", 0)
    ELSE IF amount > account.balance
    THEN Outcome(account, "InsufficientFundsError", 0)
    ELSE Outcome([account EXCEPT
                    !.balance = @ - amount,
                    !.transactions = Append(@, Transaction("withdrawal", amount, description))],
                 "", 0)

(***************************************************************************)
(* SavingsAccount                                                          *)
(***************************************************************************)
\* the lazy reset of withdrawals_remaining and of withdraw
Rollover(account, current_month) ==
    IF account.last_withdrawal_month # current_month
    THEN [account EXCEPT !.withdrawals_this_month = 0,
                         !.last_withdrawal_month = current_month]
    ELSE account

\* withdrawals_remaining with the bug of using up one withdrawal in every
\* call
WithdrawalsRemainingCounts(account, current_month) ==
    LET rolled == Rollover(account, current_month)
    IN  Outcome([rolled EXCEPT !.withdrawals_this_month = @ + 1], "",
                WithdrawalLimit - rolled.withdrawals_this_month)

\* withdrawals_remaining with the bug of resetting the counter in every call
WithdrawalsRemainingResets(account, current_month) ==
    LET rolled == [account EXCEPT !.withdrawals_this_month = 0,
                                  !.last_withdrawal_month = current_month]
    IN  Outcome(rolled, "", WithdrawalLimit - rolled.withdrawals_this_month)

WithdrawalsRemaining(account, current_month) ==
    LET rolled == Rollover(account, current_month)
    IN  Outcome(rolled, "", WithdrawalLimit - rolled.withdrawals_this_month)

\* SavingsAccount.withdraw with the bug of checking the limit after the
\* withdrawal logic of the base class has validated the amount
SavingsWithdrawLimitLast(account, amount, description, current_month) ==
    LET rolled == Rollover(account, current_month)
        w == BaseWithdraw(rolled, amount, description)
    IN  IF w.raised # ""
        THEN w
        ELSE IF rolled.withdrawals_this_month >= WithdrawalLimit
        THEN Outcome(rolled, "MonthlyWithdrawalLimitError", 0)
        ELSE Outcome([w.account EXCEPT !.withdrawals_this_month = @ + 1], "", 0)

\* SavingsAccount.withdraw with the bug of validating the amount before the
\* check of the limit
SavingsWithdrawAmountFirst(account, amount, description, current_month) ==
    LET rolled == Rollover(account, current_month)
    IN  IF amount <= 0
        THEN Outcome(rolled, "InvalidAmountError", 0)
        ELSE IF rolled.withdrawals_this_month >= WithdrawalLimit
        THEN Outcome(rolled, "MonthlyWithdrawalLimitError", 0)
        ELSE LET w == BaseWithdraw(rolled, amount, description)
             IN  IF w.raised # ""
                 THEN w
                 ELSE Outcome([w.account EXCEPT !.withdrawals_this_month = @ + 1], "", 0)

\* SavingsAccount.withdraw with the bug of counting a withdrawal that the
\* account has refused
SavingsWithdrawCountsFailures(account, amount, description, current_month) ==
    LET rolled == Rollover(account, current_month)
    IN  IF rolled.withdrawals_this_month >= WithdrawalLimit
        THEN Outcome(rolled, "MonthlyWithdrawalLimitError", 0)
        ELSE LET w == BaseWithdraw(rolled, amount, description)
             IN  Outcome([w.account EXCEPT !.withdrawals_this_month = @ + 1], w.raised, 0)

\* SavingsAccount.withdraw with the bug of allowing one withdrawal more
SavingsWithdrawOffByOne(account, amount, description, current_month) ==
    LET rolled == Rollover(account, current_month)
    IN  IF rolled.withdrawals_this_month > WithdrawalLimit
        THEN Outcome(rolled, "MonthlyWithdrawalLimitError", 0)
        ELSE LET w == BaseWithdraw(rolled, amount, description)
             IN  IF w.raised # ""
                 THEN w
                 ELSE Outcome([w.account EXCEPT !.withdrawals_this_month = @ + 1], "", 0)

SavingsWithdraw(account, amount, description, current_month) ==
    LET rolled == Rollover(account, current_month)
    IN  IF rolled.withdrawals_this_month >= WithdrawalLimit
        THEN Outcome(rolled, "MonthlyWithdrawalLimitError", 0)
        ELSE LET w == BaseWithdraw(rolled, amount, description)
             IN  IF w.raised # ""
                 THEN w
                 ELSE Outcome([w.account EXCEPT !.withdrawals_this_month = @ + 1], "", 0)

\* account.withdraw(...), dispatched on the class of the account
Withdraw(account, amount, description, current_month) ==
    IF account.kind = "Savings"
    THEN SavingsWithdraw(account, amount, description, current_month)
    ELSE BaseWithdraw(account, amount, description)

\* self._transactions.copy(): a new list of the Transaction objects of the
\* log, each of them named by its place in the log
GetTransactionHistory(account) ==
    [i \in DOMAIN account.transactions |-> i]

\* balance * (interest_rate / 12); the division is exact, see WithinInterest
InterestAmount(account) ==
    (account.balance * account.interest_rate) \div (RateScale * MonthsPerYear)

ApplyInterest(account) ==
    LET interest_amount == InterestAmount(account)
    IN  IF interest_amount > 0
        THEN Outcome([account EXCEPT
                        !.balance = @ + interest_amount,
                        !.transactions = Append(@, Transaction("interest", interest_amount,
                                                               "Monthly interest"))],
                     "", interest_amount)
        ELSE Outcome(account, "", interest_amount)

(***************************************************************************)
(* Bank                                                                    *)
(***************************************************************************)
\* _accounts is a dict: the sequence of its values in the order in which
\* their keys were first inserted; an account number is the place of its key
GetAccount(accts, account_number) ==
    IF account_number \in DOMAIN accts THEN <<accts[account_number]>> ELSE <<>>

\* the outcome of a method of the bank: the accounts afterwards, the
\* exception raised ("" for none) and the value returned
BankOutcome(accts, raised, value) ==
    [accounts |-> accts, raised |-> raised, value |-> value]

\* _accounts[account_number] = account: a key the dict holds keeps its place
\* and gets the new value, a key it does not hold is added at the end
SetItem(accts, account_number, account) ==
    IF account_number \in DOMAIN accts
    THEN [accts EXCEPT ![account_number] = account]
    ELSE Append(accts, account)

\* create_account with the bug of checking the balance before the type
CreateAccountBalanceFirst(accts, account_type, initial_balance, interest_rate, current_month, account_number) ==
    LET lowered == Lower(account_type)
        kind == IF lowered = "checking" THEN "Checking" ELSE "Savings"
    IN  IF initial_balance < 0
        THEN BankOutcome(accts, "InvalidAmountError", 0)
        ELSE IF lowered # "checking" /\ lowered # "savings"
        THEN BankOutcome(accts, "ValueError: Invalid account type", 0)
        ELSE BankOutcome(SetItem(accts, account_number,
                                 NewAccount(kind, initial_balance, interest_rate,
                                            current_month)),
                         "", account_number)

\* account_number is str(uuid.uuid4())[:8] of the new account: 8 hexadecimal
\* digits drawn at random, which are those of no account of the ledger
\* (Len(accts) + 1) or those of one of its accounts
CreateAccount(accts, account_type, initial_balance, interest_rate, current_month, account_number) ==
    LET lowered == Lower(account_type)
        kind == IF lowered = "checking" THEN "Checking" ELSE "Savings"
    IN  IF lowered # "checking" /\ lowered # "savings"
        THEN BankOutcome(accts, "ValueError: Invalid account type", 0)
        ELSE IF initial_balance < 0
        THEN BankOutcome(accts, "InvalidAmountError", 0)
        ELSE BankOutcome(SetItem(accts, account_number,
                                 NewAccount(kind, initial_balance, interest_rate,
                                            current_month)),
                         "", account_number)

\* list(self._accounts.values())
GetAllAccounts(accts) ==
    accts

\* sum(acc.balance for acc in the first n accounts if acc is of one of kinds)
RECURSIVE SumBalance(_, _, _)
SumBalance(accts, kinds, n) ==
    IF n = 0
    THEN 0
    ELSE SumBalance(accts, kinds, n - 1)
            + (IF accts[n].kind \in kinds THEN accts[n].balance ELSE 0)

\* sum(1 for acc in the accounts if acc is of one of kinds)
CountKind(accts, kinds) ==
    Cardinality({n \in DOMAIN accts : accts[n].kind \in kinds})

\* get_bank_statistics with the bug of leaving the test of the class out of
\* the balance of the checking accounts
GetBankStatisticsUnfiltered(accts) ==
    [total_accounts |-> Len(accts),
     checking_accounts |-> CountKind(accts, {"Checking"}),
     savings_accounts |-> CountKind(accts, {"Savings"}),
     total_balance |-> SumBalance(accts, {"Checking", "Savings"}, Len(accts)),
     checking_balance |-> SumBalance(accts, {"Checking", "Savings"}, Len(accts)),
     savings_balance |-> SumBalance(accts, {"Savings"}, Len(accts))]

GetBankStatistics(accts) ==
    [total_accounts |-> Len(accts),
     checking_accounts |-> CountKind(accts, {"Checking"}),
     savings_accounts |-> CountKind(accts, {"Savings"}),
     total_balance |-> SumBalance(accts, {"Checking", "Savings"}, Len(accts)),
     checking_balance |-> SumBalance(accts, {"Checking"}, Len(accts)),
     savings_balance |-> SumBalance(accts, {"Savings"}, Len(accts))]

\* the loop of apply_interest_to_savings_accounts over the first n accounts
RECURSIVE InterestSweep(_, _)
InterestSweep(accts, n) ==
    IF n = 0
    THEN BankOutcome(accts, "", 0)
    ELSE LET before == InterestSweep(accts, n - 1)
         IN  IF before.accounts[n].kind = "Savings"
             THEN LET r == ApplyInterest(before.accounts[n])
                  IN  BankOutcome([before.accounts EXCEPT ![n] = r.account], "",
                                  before.value + r.value)
             ELSE before

ApplyInterestToSavingsAccounts(accts) ==
    InterestSweep(accts, Len(accts))

\* Bank.transfer with the bug of making the deposit first and leaving the
\* check of the funds to the withdrawal
TransferDepositsFirst(accts, from_account_number, to_account_number, amount, current_month) ==
    IF GetAccount(accts, from_account_number) = <<>>
    THEN BankOutcome(accts, "ValueError: Source account not found", "")
    ELSE IF GetAccount(accts, to_account_number) = <<>>
    THEN BankOutcome(accts, "ValueError: Destination account not found", "")
    ELSE IF from_account_number = to_account_number
    THEN BankOutcome(accts, "ValueError: Cannot transfer to the same account", "")
    ELSE IF amount <= 0
    THEN BankOutcome(accts, "InvalidAmountError", "")
    ELSE LET d == Deposit(accts[to_account_number], amount,
                          "Transfer from account " \o ToString(from_account_number))
             deposited == [accts EXCEPT ![to_account_number] = d.account]
             w == Withdraw(accts[from_account_number], amount,
                           "Transfer to account " \o ToString(to_account_number),
                           current_month)
             withdrawn == [deposited EXCEPT ![from_account_number] = w.account]
         IN  IF w.raised # ""
             THEN BankOutcome(withdrawn, "", "False")
             ELSE BankOutcome(withdrawn, "", "True")

\* Bank.transfer with the bug of checking the amount before the accounts
TransferAmountFirst(accts, from_account_number, to_account_number, amount, current_month) ==
    IF amount <= 0
    THEN BankOutcome(accts, "InvalidAmountError", "")
    ELSE IF GetAccount(accts, from_account_number) = <<>>
    THEN BankOutcome(accts, "ValueError: Source account not found", "")
    ELSE IF GetAccount(accts, to_account_number) = <<>>
    THEN BankOutcome(accts, "ValueError: Destination account not found", "")
    ELSE IF from_account_number = to_account_number
    THEN BankOutcome(accts, "ValueError: Cannot transfer to the same account", "")
    ELSE IF amount > accts[from_account_number].balance
    THEN BankOutcome(accts, "InsufficientFundsError", "")
    ELSE LET w == Withdraw(accts[from_account_number], amount,
                           "Transfer to account " \o ToString(to_account_number),
                           current_month)
             withdrawn == [accts EXCEPT ![from_account_number] = w.account]
         IN  IF w.raised # ""
             THEN BankOutcome(withdrawn, "", "False")
             ELSE LET d == Deposit(withdrawn[to_account_number], amount,
                                   "Transfer from account " \o ToString(from_account_number))
                      deposited == [withdrawn EXCEPT ![to_account_number] = d.account]
                  IN  IF d.raised # ""
                      THEN BankOutcome(deposited, "", "False")
                      ELSE BankOutcome(deposited, "", "True")

\* Bank.transfer with the bug of letting the error of the withdrawal through
TransferPropagates(accts, from_account_number, to_account_number, amount, current_month) ==
    IF GetAccount(accts, from_account_number) = <<>>
    THEN BankOutcome(accts, "ValueError: Source account not found", "")
    ELSE IF GetAccount(accts, to_account_number) = <<>>
    THEN BankOutcome(accts, "ValueError: Destination account not found", "")
    ELSE IF from_account_number = to_account_number
    THEN BankOutcome(accts, "ValueError: Cannot transfer to the same account", "")
    ELSE IF amount <= 0
    THEN BankOutcome(accts, "InvalidAmountError", "")
    ELSE IF amount > accts[from_account_number].balance
    THEN BankOutcome(accts, "InsufficientFundsError", "")
    ELSE LET w == Withdraw(accts[from_account_number], amount,
                           "Transfer to account " \o ToString(to_account_number),
                           current_month)
             withdrawn == [accts EXCEPT ![from_account_number] = w.account]
         IN  IF w.raised # ""
             THEN BankOutcome(withdrawn, w.raised, "")
             ELSE LET d == Deposit(withdrawn[to_account_number], amount,
                                   "Transfer from account " \o ToString(from_account_number))
                      deposited == [withdrawn EXCEPT ![to_account_number] = d.account]
                  IN  IF d.raised # ""
                      THEN BankOutcome(deposited, "", "False")
                      ELSE BankOutcome(deposited, "", "True")

\* Bank.transfer with the bug of paying the destination and leaving the source
\* as it was
TransferKeepsSource(accts, from_account_number, to_account_number, amount, current_month) ==
    IF GetAccount(accts, from_account_number) = <<>>
    THEN BankOutcome(accts, "ValueError: Source account not found", "")
    ELSE IF GetAccount(accts, to_account_number) = <<>>
    THEN BankOutcome(accts, "ValueError: Destination account not found", "")
    ELSE IF from_account_number = to_account_number
    THEN BankOutcome(accts, "ValueError: Cannot transfer to the same account", "")
    ELSE IF amount <= 0
    THEN BankOutcome(accts, "InvalidAmountError", "")
    ELSE IF amount > accts[from_account_number].balance
    THEN BankOutcome(accts, "InsufficientFundsError", "")
    ELSE LET w == Withdraw(accts[from_account_number], amount,
                           "Transfer to account " \o ToString(to_account_number),
                           current_month)
             withdrawn == [accts EXCEPT ![from_account_number] = w.account]
         IN  IF w.raised # ""
             THEN BankOutcome(withdrawn, "", "False")
             ELSE LET d == Deposit(withdrawn[to_account_number], amount,
                                   "Transfer from account " \o ToString(from_account_number))
                      deposited == [accts EXCEPT ![to_account_number] = d.account]
                  IN  IF d.raised # ""
                      THEN BankOutcome(deposited, "", "False")
                      ELSE BankOutcome(deposited, "", "True")

Transfer(accts, from_account_number, to_account_number, amount, current_month) ==
    IF GetAccount(accts, from_account_number) = <<>>
    THEN BankOutcome(accts, "ValueError: Source account not found", "")
    ELSE IF GetAccount(accts, to_account_number) = <<>>
    THEN BankOutcome(accts, "ValueError: Destination account not found", "")
    ELSE IF from_account_number = to_account_number
    THEN BankOutcome(accts, "ValueError: Cannot transfer to the same account", "")
    ELSE IF amount <= 0
    THEN BankOutcome(accts, "InvalidAmountError", "")
    ELSE IF amount > accts[from_account_number].balance
    THEN BankOutcome(accts, "InsufficientFundsError", "")
    ELSE LET w == Withdraw(accts[from_account_number], amount,
                           "Transfer to account " \o ToString(to_account_number),
                           current_month)
             withdrawn == [accts EXCEPT ![from_account_number] = w.account]
         IN  IF w.raised # ""
             THEN BankOutcome(withdrawn, "", "False")
             ELSE LET d == Deposit(withdrawn[to_account_number], amount,
                                   "Transfer from account " \o ToString(from_account_number))
                      deposited == [withdrawn EXCEPT ![to_account_number] = d.account]
                  IN  IF d.raised # ""
                      THEN BankOutcome(deposited, "", "False")
                      ELSE BankOutcome(deposited, "", "True")

(***************************************************************************)
(* What the bounds allow.                                                  *)
(***************************************************************************)
RECURSIVE Size(_, _)
Size(accts, n) ==
    IF n = 0 THEN 0 ELSE Size(accts, n - 1) + 1 + Len(accts[n].transactions)

\* a call is made when the ledger it leaves is within MaxSize, or is no
\* larger than the ledger it found
WithinSize(accts) ==
    \/ Size(accts, Len(accts)) <= MaxSize
    \/ Size(accts, Len(accts)) <= Size(accounts, Len(accounts))

\* the account numbers passed to the bank: those it knows and one it does not
AccountNumbers ==
    1..(Len(accounts) + 1)

InterestCount(account) ==
    Cardinality({i \in DOMAIN account.transactions :
                    account.transactions[i].transaction_type = "interest"})

WithinInterest(accts) ==
    \A n \in DOMAIN accts : InterestCount(accts[n]) <= MaxInterest

\* the clock has been advanced Ticks(t) times at least
Ticks(t) ==
    (t % MonthsPerYear) + (t \div MonthsPerYear)

(***************************************************************************)
(* History kept for the statements below, one entry per account:           *)
(* the initial balance, whether the withdrawal counter was set or looked   *)
(* at in the calendar month of now, the successful withdrawals made in the *)
(* calendar month of now, the place of the account among the accounts of   *)
(* the ledger when they are put in the order of their creation, and the    *)
(* times interest was credited to it in the calendar month of now.         *)
(***************************************************************************)
NewHist(initial_balance, created) ==
    [initial_balance |-> initial_balance, observed |-> TRUE, succeeded |-> 0,
     created |-> created, credited |-> 0]

\* the history of an account after an apply_interest that took it from
\* before to after
Credited(h, before, after) ==
    IF after.balance > before.balance
    THEN [h EXCEPT !.credited = @ + 1]
    ELSE h

\* the history after create_account has registered an account: the account
\* is the newest of the ledger, and an account that it replaces is gone
Registered(hs, account_number, initial_balance) ==
    IF account_number \in DOMAIN hs
    THEN [n \in DOMAIN hs |->
            IF n = account_number
            THEN NewHist(initial_balance, Len(hs))
            ELSE IF hs[n].created > hs[account_number].created
            THEN [hs[n] EXCEPT !.created = @ - 1]
            ELSE hs[n]]
    ELSE Append(hs, NewHist(initial_balance, Len(hs) + 1))

Observed(h) ==
    [h EXCEPT !.observed = TRUE]

Succeeded(h) ==
    [h EXCEPT !.observed = TRUE, !.succeeded = @ + 1]

NewMonth(h) ==
    [h EXCEPT !.observed = FALSE, !.succeeded = 0, !.credited = 0]

\* the last call: the operation, the account numbers, amount and text
\* passed, the exception raised ("" for none), the value returned as text
\* ("" for None) or as a number, and the objects returned as a sequence
CalledWith(op, a, b, amount, text, raised, returned, number, value) ==
    [op |-> op, a |-> a, b |-> b, amount |-> amount, text |-> text,
     raised |-> raised, returned |-> returned, number |-> number, value |-> value]

Called(op, a, b, amount, raised, returned, number) ==
    CalledWith(op, a, b, amount, "", raised, returned, number, <<>>)

\* no call is being reported: the caller is about to make its next call
Idle ==
    Called("idle", 0, 0, 0, "", "", 0)

(***************************************************************************)
(* The state machine.  The ledger is used by one caller, one call at a     *)
(* time: a call runs to its end and leaves its outcome in last, and the    *)
(* caller takes the outcome (Continue) before it makes the next call.      *)
(***************************************************************************)
Init ==
    /\ accounts = <<>>
    /\ now = 0
    /\ hist = <<>>
    /\ last = Idle

\* create_account when uuid4 gives the new account the number
\* account_number; b is the interest rate passed and value the account
\* returned
CreateAccountCall(account_number) ==
    \E account_type \in AccountTypes, initial_balance \in InitialBalances,
       interest_rate \in InterestRates :
        LET r == CreateAccount(accounts, account_type, initial_balance, interest_rate,
                               Month(now), account_number)
        IN  /\ last = Idle
            /\ Len(r.accounts) <= MaxAccounts
            /\ WithinSize(r.accounts)
            /\ accounts' = r.accounts
            /\ last' = CalledWith("create_account", 0, interest_rate, initial_balance,
                                  account_type, r.raised, "", r.value,
                                  GetAccount(r.accounts, r.value))
            /\ hist' = IF r.raised = ""
                       THEN Registered(hist, account_number, initial_balance)
                       ELSE hist
            /\ UNCHANGED now

\* create_account, the number drawn being that of no account of the ledger
CreateAccountAction ==
    CreateAccountCall(Len(accounts) + 1)

\* create_account, the number drawn being that of an account of the ledger
CreateAccountCollidingAction ==
    \E account_number \in DOMAIN accounts :
        CreateAccountCall(account_number)

DepositAction ==
    \E n \in DOMAIN accounts, amount \in Amounts :
        LET r == Deposit(accounts[n], amount, "")
            accts == [accounts EXCEPT ![n] = r.account]
        IN  /\ last = Idle
            /\ WithinSize(accts)
            /\ accounts' = accts
            /\ last' = Called("deposit", n, 0, amount, r.raised, "", 0)
            /\ UNCHANGED <<now, hist>>

WithdrawAction ==
    \E n \in DOMAIN accounts, amount \in WithdrawAmounts :
        LET r == Withdraw(accounts[n], amount, "", Month(now))
            accts == [accounts EXCEPT ![n] = r.account]
        IN  /\ last = Idle
            /\ WithinSize(accts)
            /\ accounts' = accts
            /\ last' = Called("withdraw", n, 0, amount, r.raised, "", 0)
            /\ hist' = [hist EXCEPT ![n] =
                          IF accounts[n].kind # "Savings" THEN @
                          ELSE IF r.raised = "" THEN Succeeded(@)
                          ELSE Observed(@)]
            /\ UNCHANGED now

TransferAction ==
    \E f \in AccountNumbers, t \in AccountNumbers, amount \in WithdrawAmounts :
        LET r == Transfer(accounts, f, t, amount, Month(now))
        IN  /\ last = Idle
            /\ WithinSize(r.accounts)
            /\ accounts' = r.accounts
            /\ last' = Called("transfer", f, t, amount, r.raised, r.value, 0)
            /\ hist' = IF r.raised # "" \/ accounts[f].kind # "Savings"
                       THEN hist
                       ELSE [hist EXCEPT ![f] =
                               IF r.value = "True" THEN Succeeded(@) ELSE Observed(@)]
            /\ UNCHANGED now

WithdrawalsRemainingAction ==
    \E n \in DOMAIN accounts :
        LET r == WithdrawalsRemaining(accounts[n], Month(now))
        IN  /\ last = Idle
            /\ accounts[n].kind = "Savings"
            /\ accounts' = [accounts EXCEPT ![n] = r.account]
            /\ last' = Called("withdrawals_remaining", n, 0, 0, "", "", r.value)
            /\ hist' = [hist EXCEPT ![n] = Observed(@)]
            /\ UNCHANGED now

ApplyInterestAction ==
    LET r == ApplyInterestToSavingsAccounts(accounts)
    IN  /\ last = Idle
        /\ WithinSize(r.accounts)
        /\ WithinInterest(r.accounts)
        /\ accounts' = r.accounts
        /\ last' = Called("apply_interest_to_savings_accounts", 0, 0, 0, "", "", r.value)
        /\ hist' = [n \in DOMAIN hist |-> Credited(hist[n], accounts[n], r.accounts[n])]
        /\ UNCHANGED now

\* apply_interest() of one savings account
AccountApplyInterestAction ==
    \E n \in DOMAIN accounts :
        LET r == ApplyInterest(accounts[n])
            accts == [accounts EXCEPT ![n] = r.account]
        IN  /\ last = Idle
            /\ accounts[n].kind = "Savings"
            /\ WithinSize(accts)
            /\ WithinInterest(accts)
            /\ accounts' = accts
            /\ last' = Called("apply_interest", n, 0, 0, "", "", r.value)
            /\ hist' = [hist EXCEPT ![n] = Credited(@, accounts[n], r.account)]
            /\ UNCHANGED now

GetAccountAction ==
    \E account_number \in AccountNumbers :
        /\ last = Idle
        /\ last' = CalledWith("get_account", account_number, 0, 0, "", "", "", 0,
                              GetAccount(accounts, account_number))
        /\ UNCHANGED <<accounts, now, hist>>

GetAllAccountsAction ==
    /\ last = Idle
    /\ last' = CalledWith("get_all_accounts", 0, 0, 0, "", "", "", 0,
                          GetAllAccounts(accounts))
    /\ UNCHANGED <<accounts, now, hist>>

GetBankStatisticsAction ==
    /\ last = Idle
    /\ last' = CalledWith("get_bank_statistics", 0, 0, 0, "", "", "", 0,
                          <<GetBankStatistics(accounts)>>)
    /\ UNCHANGED <<accounts, now, hist>>

GetTransactionHistoryAction ==
    \E n \in DOMAIN accounts :
        /\ last = Idle
        /\ last' = CalledWith("get_transaction_history", n, 0, 0, "", "", "", 0,
                              GetTransactionHistory(accounts[n]))
        /\ UNCHANGED <<accounts, now, hist>>

\* the caller changes the list that get_transaction_history has returned:
\* del history[0]
ChangeReturnedListAction ==
    /\ last.op = "get_transaction_history"
    /\ last.value # <<>>
    /\ last' = [last EXCEPT !.op = "del history[0]", !.value = Tail(@)]
    /\ UNCHANGED <<accounts, now, hist>>

\* the caller changes a Transaction of the list that get_transaction_history
\* has returned: history[i].amount = 0; the Transaction is the object that
\* the log of the account holds
ChangeReturnedTransactionAction ==
    \E i \in DOMAIN last.value :
        /\ last.op = "get_transaction_history"
        /\ accounts' = [accounts EXCEPT
                          ![last.a].transactions[last.value[i]].amount = 0]
        /\ last' = [last EXCEPT !.op = "history[i].amount = 0", !.number = i]
        /\ UNCHANGED <<now, hist>>

\* the caller has taken the outcome of its call
Continue ==
    /\ last # Idle
    /\ last' = Idle
    /\ UNCHANGED <<accounts, now, hist>>

\* calendar time passes between two calls
Tick ==
    \E d \in ClockSteps :
        /\ last = Idle
        /\ Ticks(now + d) <= MaxTicks
        /\ now' = now + d
        /\ hist' = [n \in DOMAIN hist |-> NewMonth(hist[n])]
        /\ UNCHANGED <<accounts, last>>

Next ==
    \/ CreateAccountAction
    \/ DepositAction
    \/ WithdrawAction
    \/ TransferAction
    \/ WithdrawalsRemainingAction
    \/ ApplyInterestAction
    \/ AccountApplyInterestAction
    \/ GetAccountAction
    \/ GetAllAccountsAction
    \/ GetBankStatisticsAction
    \/ GetTransactionHistoryAction
    \/ Continue
    \/ Tick

Spec == Init /\ [][Next]_vars

(***************************************************************************)
(* The registry of the ledger when the 8 digits drawn for a new account    *)
(* may be those of an account it holds: accounts are created, paid into    *)
(* and looked up.                                                          *)
(***************************************************************************)
NextRegistry ==
    \/ CreateAccountAction
    \/ CreateAccountCollidingAction
    \/ DepositAction
    \/ GetAccountAction
    \/ GetAllAccountsAction
    \/ GetBankStatisticsAction
    \/ Continue
    \/ Tick

SpecRegistry == Init /\ [][NextRegistry]_vars

(***************************************************************************)
(* The ledger taken up after FrameAccounts calls of create_account in the  *)
(* month 0, each with a type and an initial balance that create_account    *)
(* accepts, and after each account was asked for no withdrawal or for      *)
(* WithdrawalLimit withdrawals of one unit in that month: money is paid    *)
(* in, taken out and moved between the accounts.                           *)
(***************************************************************************)
RECURSIVE TakenOut(_, _)
TakenOut(account, k) ==
    IF k = 0
    THEN account
    ELSE Withdraw(TakenOut(account, k - 1), Unit, "", Month(0)).account

FrameLedgers ==
    {accts \in [1..FrameAccounts ->
                    {TakenOut(NewAccount(kind, initial_balance, InterestRateBound, Month(0)), k) :
                        kind \in {"Checking", "Savings"},
                        initial_balance \in {b \in InitialBalances : b >= 0},
                        k \in {0, WithdrawalLimit}}] :
        Size(accts, Len(accts)) <= FrameSize}

\* the history of an account of such a ledger
FrameHist(account, created) ==
    [NewHist(IF account.transactions = <<>> THEN 0 ELSE account.transactions[1].amount,
             created) EXCEPT
        !.succeeded = IF account.kind = "Savings" THEN account.withdrawals_this_month ELSE 0]

InitFrame ==
    /\ accounts \in FrameLedgers
    /\ now = 0
    /\ hist = [n \in DOMAIN accounts |-> FrameHist(accounts[n], n)]
    /\ last = Idle

NextFrame ==
    \/ DepositAction
    \/ WithdrawAction
    \/ TransferAction
    \/ ApplyInterestAction
    \/ GetBankStatisticsAction
    \/ Continue

SpecFrame == InitFrame /\ [][NextFrame]_vars

(***************************************************************************)
(* The logs of the accounts when the caller of get_transaction_history     *)
(* goes on to change what it was given: the list, or a Transaction of it.  *)
(***************************************************************************)
NextHistory ==
    \/ CreateAccountAction
    \/ DepositAction
    \/ WithdrawAction
    \/ AccountApplyInterestAction
    \/ GetTransactionHistoryAction
    \/ ChangeReturnedListAction
    \/ ChangeReturnedTransactionAction
    \/ Continue

SpecHistory == Init /\ [][NextHistory]_vars

(***************************************************************************)
(* Statements.  In a step that makes a call, last' holds the call and its  *)
(* outcome, the unprimed variables the ledger before the call and the      *)
(* primed ones the ledger after it.                                        *)
(***************************************************************************)
Failed(call) ==
    call.raised # "" \/ call.returned = "False"

SameBalanceAndLog(n) ==
    /\ accounts'[n].balance = accounts[n].balance
    /\ accounts'[n].transactions = accounts[n].transactions

\* log is old with exactly one transaction of the type and amount appended
AppendedOne(log, old, transaction_type, amount) ==
    /\ Len(log) = Len(old) + 1
    /\ SubSeq(log, 1, Len(old)) = old
    /\ log[Len(log)].transaction_type = transaction_type
    /\ log[Len(log)].amount = amount

Signed(transaction) ==
    IF transaction.transaction_type = "withdrawal"
    THEN 0 - transaction.amount
    ELSE transaction.amount

RECURSIVE SignedSum(_)
SignedSum(log) ==
    IF log = <<>> THEN 0 ELSE Signed(Head(log)) + SignedSum(Tail(log))

\* the savings account has used up the withdrawals of the month of now
AtLimit(account) ==
    /\ account.kind = "Savings"
    /\ account.last_withdrawal_month = Month(now)
    /\ account.withdrawals_this_month >= WithdrawalLimit

\* C1: a transfer that fails, by raising or by returning False, leaves the
\* balance and the transaction log of both named accounts as they were
TransferAtomicity ==
    [][(last'.op = "transfer" /\ Failed(last'))
        => \A n \in {last'.a, last'.b} \cap DOMAIN accounts : SameBalanceAndLog(n)]_vars

\* a transfer out of a savings account has returned False
TransferReturnedFalse ==
    /\ last.op = "transfer"
    /\ last.returned = "False"
    /\ accounts[last.a].kind = "Savings"

\* C2: a transfer that returns True takes exactly the amount from the source
\* and adds it to the destination, and appends one withdrawal transaction of
\* the amount to the source's log, one deposit transaction of the amount to
\* the destination's log and nothing else
TransferConservation ==
    [][(last'.op = "transfer" /\ last'.returned = "True")
        => /\ accounts'[last'.a].balance = accounts[last'.a].balance - last'.amount
           /\ accounts'[last'.b].balance = accounts[last'.b].balance + last'.amount
           /\ AppendedOne(accounts'[last'.a].transactions, accounts[last'.a].transactions,
                          "withdrawal", last'.amount)
           /\ AppendedOne(accounts'[last'.b].transactions, accounts[last'.b].transactions,
                          "deposit", last'.amount)]_vars

\* a transfer out of a savings account has returned True
TransferReturnedTrue ==
    /\ last.op = "transfer"
    /\ last.returned = "True"
    /\ accounts[last.a].kind = "Savings"
    /\ accounts[last.b].kind = "Checking"

\* C3 as claimed: the balance of every account is its initial balance plus the
\* signed amounts of all the transactions of its log
LedgerEquationFromInitialBalance ==
    \A n \in DOMAIN accounts :
        accounts[n].balance
            = hist[n].initial_balance + SignedSum(accounts[n].transactions)

\* C3 as amended: the balance of every account is the sum of the signed amounts
\* of all the transactions of its log, the initial balance being one of them
\* (the "Initial deposit" record) when it is above 0
LedgerEquation ==
    \A n \in DOMAIN accounts :
        /\ accounts[n].balance = SignedSum(accounts[n].transactions)
        /\ hist[n].initial_balance > 0
            => /\ accounts[n].transactions # <<>>
               /\ Head(accounts[n].transactions)
                    = Transaction("deposit", hist[n].initial_balance, "Initial deposit")
        /\ hist[n].initial_balance = 0
            => \A i \in DOMAIN accounts[n].transactions :
                  accounts[n].transactions[i].description # "Initial deposit"

\* an account opened with a balance has since had a withdrawal and interest
LedgerWithHistory ==
    \E n \in DOMAIN accounts :
        /\ hist[n].initial_balance > 0
        /\ \E i, j \in DOMAIN accounts[n].transactions :
              /\ accounts[n].transactions[i].transaction_type = "withdrawal"
              /\ accounts[n].transactions[j].transaction_type = "interest"

\* C4: no account ever has a balance below 0
NonNegativeBalance ==
    \A n \in DOMAIN accounts : accounts[n].balance >= 0

\* an account has been emptied and a further withdrawal from it has failed
EmptiedAccount ==
    /\ last.op = "withdraw"
    /\ last.raised = "InsufficientFundsError"
    /\ accounts[last.a].balance = 0
    /\ accounts[last.a].transactions # <<>>

\* C5 as claimed: withdraw with an amount above the balance fails with
\* InsufficientFunds and changes neither balance, log nor monthly count
WithdrawOverBalance ==
    [][(last'.op = "withdraw" /\ last'.amount > accounts[last'.a].balance)
        => /\ last'.raised = "InsufficientFundsError"
           /\ SameBalanceAndLog(last'.a)
           /\ accounts'[last'.a].withdrawals_this_month
                = accounts[last'.a].withdrawals_this_month]_vars

\* C5 as amended: withdraw with an amount above the balance changes neither
\* balance nor log; it fails with MonthlyWithdrawalLimitExceeded on a savings
\* account that has used up the withdrawals of the current month and with
\* InsufficientFunds on every other account; the monthly count stays as it
\* is, except that it is reset to 0 on a savings account whose recorded
\* month is not the current one
WithdrawOverBalanceByKind ==
    [][(last'.op = "withdraw" /\ last'.amount > accounts[last'.a].balance)
        => LET account == accounts[last'.a]
               stale == account.kind = "Savings"
                            /\ account.last_withdrawal_month # Month(now)
           IN  /\ SameBalanceAndLog(last'.a)
               /\ last'.raised = IF AtLimit(account)
                                 THEN "MonthlyWithdrawalLimitError"
                                 ELSE "InsufficientFundsError"
               /\ accounts'[last'.a].withdrawals_this_month
                    = IF stale THEN 0 ELSE account.withdrawals_this_month]_vars

\* more than its balance has been asked of a savings account at its limit
OverBalanceAtLimit ==
    /\ last.op = "withdraw"
    /\ last.amount > accounts[last.a].balance
    /\ last.raised = "MonthlyWithdrawalLimitError"

\* C6: deposit with an amount of 0 or less fails with InvalidAmount and
\* leaves balance and log as they were
DepositRejectsNonPositive ==
    [][(last'.op = "deposit" /\ last'.amount <= 0)
        => /\ last'.raised = "InvalidAmountError"
           /\ SameBalanceAndLog(last'.a)]_vars

\* a deposit of 0 into an account that holds money has failed
DepositOfZeroFailed ==
    /\ last.op = "deposit"
    /\ last.amount = 0
    /\ last.raised = "InvalidAmountError"
    /\ accounts[last.a].balance > 0

\* C7: once a savings account has made 3 successful withdrawals in the
\* calendar month of now, a further withdraw fails with
\* MonthlyWithdrawalLimitExceeded, a further transfer out of it that reaches
\* the withdrawal returns False, and balance, log and count stay as they were
MonthlyLimit ==
    [][/\ (last'.op = "withdraw" /\ accounts[last'.a].kind = "Savings"
              /\ hist[last'.a].succeeded >= WithdrawalLimit)
          => /\ last'.raised = "MonthlyWithdrawalLimitError"
             /\ accounts'[last'.a] = accounts[last'.a]
       /\ (last'.op = "transfer" /\ last'.raised = ""
              /\ accounts[last'.a].kind = "Savings"
              /\ hist[last'.a].succeeded >= WithdrawalLimit)
          => /\ last'.returned = "False"
             /\ accounts' = accounts]_vars

\* the 4th withdrawal of a month that the balance would cover has failed
FourthWithdrawalFailed ==
    /\ last.op = "withdraw"
    /\ last.amount > 0
    /\ last.amount <= accounts[last.a].balance
    /\ hist[last.a].succeeded = WithdrawalLimit
    /\ last.raised = "MonthlyWithdrawalLimitError"

\* C8: when the calendar month of now is not the one in which the counter of
\* a savings account was last set or looked at, withdrawals_remaining
\* reports 3 and a withdraw does not fail on the monthly limit
MonthRollover ==
    [][/\ (last'.op = "withdrawals_remaining" /\ ~hist[last'.a].observed)
          => /\ last'.number = WithdrawalLimit
             /\ accounts'[last'.a].withdrawals_this_month = 0
       /\ (last'.op = "withdraw" /\ accounts[last'.a].kind = "Savings"
              /\ ~hist[last'.a].observed)
          => last'.raised # "MonthlyWithdrawalLimitError"]_vars

\* the first failing check of the order source, destination, same account,
\* amount, funds; "" when none of them fails
FirstFailingCheck(accts, f, t, amount) ==
    CASE f \notin DOMAIN accts -> "ValueError: Source account not found"
      [] f \in DOMAIN accts /\ t \notin DOMAIN accts
            -> "ValueError: Destination account not found"
      [] f \in DOMAIN accts /\ t \in DOMAIN accts /\ f = t
            -> "ValueError: Cannot transfer to the same account"
      [] f \in DOMAIN accts /\ t \in DOMAIN accts /\ f # t /\ amount <= 0
            -> "InvalidAmountError"
      [] f \in DOMAIN accts /\ t \in DOMAIN accts /\ f # t /\ amount > 0
            /\ amount > accts[f].balance
            -> "InsufficientFundsError"
      [] OTHER -> ""

PreCheckErrors ==
    {"ValueError: Source account not found",
     "ValueError: Destination account not found",
     "ValueError: Cannot transfer to the same account",
     "InvalidAmountError", "InsufficientFundsError"}

KindOf(account_type) ==
    CASE account_type \in {"checking", "Checking"} -> "Checking"
      [] account_type \in {"savings", "Savings"} -> "Savings"
      [] OTHER -> ""

\* C11: create_account with a type that is neither checking nor savings
\* fails with ValueError (InvalidAccountKind), with a valid type and an
\* initial balance below 0 it fails with InvalidAmount, and in both cases the
\* accounts of the ledger stay as they were; otherwise it succeeds, the
\* account returned is of the type asked for, has the initial balance as
\* its balance, is the one get_account finds under its number, and the
\* accounts under every other number stay as they were
CreateAccountOutcome ==
    [][last'.op = "create_account"
        => LET kind == KindOf(last'.text)
               number == last'.number
           IN  /\ kind = ""
                    => /\ last'.raised = "ValueError: Invalid account type"
                       /\ accounts' = accounts
               /\ (kind # "" /\ last'.amount < 0)
                    => /\ last'.raised = "InvalidAmountError"
                       /\ accounts' = accounts
               /\ (kind # "" /\ last'.amount >= 0)
                    => /\ last'.raised = ""
                       /\ DOMAIN accounts' = DOMAIN accounts \cup {number}
                       /\ accounts'[number].kind = kind
                       /\ accounts'[number].balance = last'.amount
                       /\ last'.value = <<accounts'[number]>>
                       /\ GetAccount(accounts', number) = last'.value
                       /\ \A n \in DOMAIN accounts \ {number} :
                              accounts'[n] = accounts[n]]_vars

\* a savings account has been created in a ledger that held an account
CreatedSecondAccount ==
    /\ last.op = "create_account"
    /\ last.text = "Savings"
    /\ last.raised = ""
    /\ last.number = 2
    /\ accounts[1].transactions # <<>>

\* C12: accounts are never removed or replaced: the number of a new account
\* is that of no account of the ledger, every successful create_account
\* increases the number of accounts by exactly 1, and the account that
\* get_account returns for a number is the same account in every later
\* state, whatever is called, create_account included
AccountsNeverReplaced ==
    [][/\ DOMAIN accounts \subseteq DOMAIN accounts'
       /\ (last'.op = "create_account" /\ last'.raised = "")
            => /\ last'.number \notin DOMAIN accounts
               /\ Len(accounts') = Len(accounts) + 1
               /\ \A n \in DOMAIN accounts :
                      GetAccount(accounts', n) = GetAccount(accounts, n)]_vars

\* C13: apply_interest_to_savings_accounts applies apply_interest exactly
\* once to every savings account, returns the sum of the amounts that the
\* call has added to the balances of the savings accounts, and leaves every
\* checking account as it was
InterestSweepTotal ==
    [][last'.op = "apply_interest_to_savings_accounts"
        => /\ DOMAIN accounts' = DOMAIN accounts
           /\ \A n \in DOMAIN accounts :
                  accounts'[n] = IF accounts[n].kind = "Savings"
                                 THEN ApplyInterest(accounts[n]).account
                                 ELSE accounts[n]
           /\ last'.number = SumBalance(accounts', {"Savings"}, Len(accounts'))
                                - SumBalance(accounts, {"Savings"}, Len(accounts))]_vars

\* the accounts of a kind
OfKind(kind) ==
    {n \in DOMAIN accounts : accounts[n].kind = kind}

\* the sum of the balances of the accounts of a set of numbers
RECURSIVE BalanceOver(_)
BalanceOver(numbers) ==
    IF numbers = {}
    THEN 0
    ELSE LET n == CHOOSE m \in numbers : TRUE
         IN  accounts[n].balance + BalanceOver(numbers \ {n})

\* C14: get_bank_statistics changes nothing and agrees with the accounts:
\* total_accounts is the number of accounts and the sum of the two counts,
\* total_balance is the sum of all balances and of the two balances by
\* kind, and each figure by kind is the count or the sum over the accounts
\* of that kind
BankStatistics ==
    [][last'.op = "get_bank_statistics"
        => LET s == last'.value[1]
           IN  /\ UNCHANGED <<accounts, now, hist>>
               /\ last'.raised = ""
               /\ s.total_accounts = Len(accounts)
               /\ s.total_accounts = s.checking_accounts + s.savings_accounts
               /\ s.checking_accounts = Cardinality(OfKind("Checking"))
               /\ s.savings_accounts = Cardinality(OfKind("Savings"))
               /\ s.total_balance = BalanceOver(DOMAIN accounts)
               /\ s.total_balance = s.checking_balance + s.savings_balance
               /\ s.checking_balance = BalanceOver(OfKind("Checking"))
               /\ s.savings_balance = BalanceOver(OfKind("Savings"))]_vars

\* the statistics have been asked for after a transfer of 1 from a checking
\* account opened with 4 to a savings account opened with 4, and report the
\* balances 8, 3 and 5
StatisticsAfterTransfer ==
    /\ last.op = "get_bank_statistics"
    /\ Len(accounts) = 2
    /\ accounts[1].kind = "Checking"
    /\ accounts[2].kind = "Savings"
    /\ hist[1].initial_balance = 4 * Unit
    /\ hist[2].initial_balance = 4 * Unit
    /\ Len(accounts[1].transactions) = 2
    /\ accounts[1].transactions[2].description = "Transfer to account 2"
    /\ last.value[1].total_balance = 8 * Unit
    /\ last.value[1].checking_balance = 3 * Unit
    /\ last.value[1].savings_balance = 5 * Unit

\* C15: the construction of an account with an initial balance below 0 fails
\* with InvalidAmount and no account exists; with an initial balance above 0
\* the new account has that balance and a log of exactly one deposit of that
\* amount tagged "Initial deposit"; with the initial balance 0 it has the
\* balance 0 and an empty log
AccountConstruction ==
    [][(last'.op = "create_account" /\ KindOf(last'.text) # "")
        => /\ last'.amount < 0
                => /\ last'.raised = "InvalidAmountError"
                   /\ last'.value = <<>>
                   /\ accounts' = accounts
           /\ last'.amount > 0
                => /\ last'.raised = ""
                   /\ last'.value[1].balance = last'.amount
                   /\ last'.value[1].transactions
                        = <<Transaction("deposit", last'.amount, "Initial deposit")>>
           /\ last'.amount = 0
                => /\ last'.raised = ""
                   /\ last'.value[1].balance = 0
                   /\ last'.value[1].transactions = <<>>]_vars

\* an account of each kind has been constructed, one with an initial
\* balance and one without
ConstructedBoth ==
    /\ last.op = "create_account"
    /\ last.raised = ""
    /\ last.amount = 0
    /\ last.value[1].kind = "Checking"
    /\ \E n \in DOMAIN accounts :
          /\ accounts[n].kind = "Savings"
          /\ accounts[n].transactions
                = <<Transaction("deposit", 4 * Unit, "Initial deposit")>>

\* C16: every savings account that create_account has registered has an
\* interest rate from 0 to 0.1, whatever interest rate was passed
InterestRateWithinBound ==
    \A n \in DOMAIN accounts :
        accounts[n].kind = "Savings"
            => (0 <= accounts[n].interest_rate
                    /\ accounts[n].interest_rate <= InterestRateBound)

\* the accounts that get_account finds under the numbers it is asked for
Found ==
    {GetAccount(accounts, n)[1] :
        n \in {m \in AccountNumbers : GetAccount(accounts, m) # <<>>}}

\* C17: the accounts that get_all_accounts returns are those that
\* get_account finds over all account numbers, each listed account is found
\* under its own number, the list is in the order of creation of the
\* accounts, and get_account of an unknown number returns None, raises
\* nothing and changes nothing
ListedInCreationOrder ==
    [][/\ last'.op = "get_all_accounts"
            => LET listed == last'.value
               IN  /\ {listed[i] : i \in DOMAIN listed} = Found
                   /\ \A i \in DOMAIN listed : GetAccount(accounts, i) = <<listed[i]>>
                   /\ \A i, j \in DOMAIN listed :
                          i < j => hist[i].created < hist[j].created
                   /\ UNCHANGED <<accounts, now, hist>>
       /\ (last'.op = "get_account" /\ last'.a \notin DOMAIN accounts)
            => /\ last'.value = <<>>
               /\ last'.raised = ""
               /\ UNCHANGED <<accounts, now, hist>>]_vars

\* C18: withdraw on a savings account does the rollover of the month, then
\* the check of the limit, then the validation of the amount: when the
\* count of the current month has reached 3 it fails with
\* MonthlyWithdrawalLimitExceeded for every amount; otherwise it fails with
\* InvalidAmount for an amount of 0 or less, with InsufficientFunds for an
\* amount above the balance, and succeeds for the rest; InvalidAmount and
\* InsufficientFunds are reported only when fewer than 3 withdrawals have
\* succeeded in the calendar month; a failed withdraw leaves balance and
\* log as they were
SavingsWithdrawCheckOrder ==
    [][(last'.op = "withdraw" /\ accounts[last'.a].kind = "Savings")
        => LET account == accounts[last'.a]
           IN  /\ last'.raised =
                     IF AtLimit(account) THEN "MonthlyWithdrawalLimitError"
                     ELSE IF last'.amount <= 0 THEN "InvalidAmountError"
                     ELSE IF last'.amount > account.balance THEN "InsufficientFundsError"
                     ELSE ""
               /\ last'.raised \in {"InvalidAmountError", "InsufficientFundsError"}
                    => hist[last'.a].succeeded < WithdrawalLimit
               /\ last'.raised # "" => SameBalanceAndLog(last'.a)]_vars

\* an amount of 0 or less has been asked of a savings account at its limit
NonPositiveAtLimit ==
    /\ last.op = "withdraw"
    /\ last.amount <= 0
    /\ last.raised = "MonthlyWithdrawalLimitError"
    /\ hist[last.a].succeeded = WithdrawalLimit

\* C19: apply_interest on a savings account, with interest the balance times
\* a 12th of the rate: when interest is above 0 the balance grows by
\* exactly interest and exactly one interest transaction of that amount is
\* appended, otherwise balance and log stay as they were; in every case the
\* value returned is the amount added to the balance
ApplyInterestReturnsAdded ==
    [][last'.op = "apply_interest"
        => LET account == accounts[last'.a]
               interest == InterestAmount(account)
           IN  /\ interest > 0
                    => /\ accounts'[last'.a].balance = account.balance + interest
                       /\ AppendedOne(accounts'[last'.a].transactions,
                                      account.transactions, "interest", interest)
               /\ interest <= 0 => SameBalanceAndLog(last'.a)
               /\ last'.number = accounts'[last'.a].balance - account.balance]_vars

\* C20: interest is credited to an account at most once in a calendar
\* month: a second apply_interest_to_savings_accounts in the same month
\* does not credit interest again
InterestOncePerMonth ==
    \A n \in DOMAIN accounts : hist[n].credited <= 1

\* the count of the month of now that a savings account holds: the count of
\* another month is one that the next look at the counter resets
CountOfMonth(account) ==
    IF account.last_withdrawal_month = Month(now)
    THEN account.withdrawals_this_month
    ELSE 0

\* the call has taken money out of the account n
WithdrawnFrom(call, n) ==
    \/ call.op = "withdraw" /\ call.a = n /\ call.raised = ""
    \/ call.op = "transfer" /\ call.a = n /\ call.returned = "True"

\* C21: within one calendar month the withdrawal count of a savings account
\* grows by exactly 1 with each successful withdrawal from it, a withdraw or
\* a successful transfer out of it, and is left as it is by a failed
\* withdraw, a failed transfer, a deposit, a transfer into it and
\* apply_interest; so is the counter itself once it has been set or looked
\* at in the month
CounterCountsSuccesses ==
    [][last'.op \in {"withdraw", "transfer", "deposit", "apply_interest",
                     "apply_interest_to_savings_accounts"}
        => \A n \in DOMAIN accounts :
              accounts[n].kind = "Savings"
                => LET step == IF WithdrawnFrom(last', n) THEN 1 ELSE 0
                   IN  /\ CountOfMonth(accounts'[n]) = CountOfMonth(accounts[n]) + step
                       /\ hist[n].observed
                            => accounts'[n].withdrawals_this_month
                                 = accounts[n].withdrawals_this_month + step]_vars

\* a savings account that has made a withdrawal in the month has been the
\* source of a successful transfer and then of a failed withdraw
CountedTransferThenFailure ==
    /\ last.op = "withdraw"
    /\ last.raised = "InvalidAmountError"
    /\ accounts[last.a].kind = "Savings"
    /\ accounts[last.a].withdrawals_this_month = 2
    /\ hist[last.a].succeeded = 2
    /\ \E i \in DOMAIN accounts[last.a].transactions :
          accounts[last.a].transactions[i].description = "Transfer to account 2"

\* the log old is the beginning of the log log
Prefix(old, log) ==
    /\ Len(old) <= Len(log)
    /\ SubSeq(log, 1, Len(old)) = old

\* the step is no call of a deposit, withdraw, transfer, apply_interest or
\* query, or the log of every account after it begins with the log before
\* it and is the log before it when the call has failed
OperationsKeepLog ==
    last'.op \in {"deposit", "withdraw", "transfer", "apply_interest",
                  "apply_interest_to_savings_accounts", "withdrawals_remaining",
                  "get_account", "get_all_accounts", "get_bank_statistics",
                  "get_transaction_history"}
        => \A n \in DOMAIN accounts :
              /\ Prefix(accounts[n].transactions, accounts'[n].transactions)
              /\ Failed(last')
                    => accounts'[n].transactions = accounts[n].transactions

\* C22: the log of every account after a deposit, withdraw, transfer,
\* apply_interest or query begins with the log before it, a failed
\* operation appends nothing, and a change that a caller makes to what
\* get_transaction_history has returned changes the log of no account
AppendOnlyLog ==
    [][/\ OperationsKeepLog
       /\ last'.op \in {"del history[0]", "history[i].amount = 0"}
            => \A n \in DOMAIN accounts :
                  accounts'[n].transactions = accounts[n].transactions]_vars

\* what is left of it when the changes of the caller are those that it
\* makes to the list and not to the Transactions that the list holds
AppendOnlyLogAndList ==
    [][/\ OperationsKeepLog
       /\ last'.op = "del history[0]"
            => \A n \in DOMAIN accounts :
                  accounts'[n].transactions = accounts[n].transactions]_vars

\* C23: the clock never moving backwards, no savings account makes more than
\* 3 successful withdrawals, withdraws and transfers out of it together, in
\* one calendar month of one year, whatever is called in between
AtMostThreePerMonth ==
    \A n \in DOMAIN accounts :
        accounts[n].kind = "Savings" => hist[n].succeeded <= WithdrawalLimit

\* in a month after the one of its creation a savings account has made 3
\* withdrawals and the query reports that none is left
ThreeInLaterMonth ==
    /\ now > 0
    /\ last.op = "withdrawals_remaining"
    /\ last.number = 0
    /\ hist[last.a].succeeded = WithdrawalLimit

\* C24: the withdrawal count of every savings account is from 0 to 3 in
\* every state, withdrawals_remaining returns a value from 0 to 3 and changes
\* neither balance nor log, and a second query that follows with the clock
\* where it was returns the value of the first
CounterRange ==
    [][/\ \A n \in DOMAIN accounts' :
              accounts'[n].kind = "Savings"
                => accounts'[n].withdrawals_this_month \in 0..WithdrawalLimit
       /\ last'.op = "withdrawals_remaining"
            => /\ last'.number \in 0..WithdrawalLimit
               /\ SameBalanceAndLog(last'.a)
               /\ now' = now
               /\ WithdrawalsRemaining(accounts'[last'.a], Month(now')).value
                    = last'.number]_vars

\* the query has been made of an account that made a withdrawal in an
\* earlier month, and reports 3
RemainingAfterRollover ==
    /\ last.op = "withdrawals_remaining"
    /\ last.number = WithdrawalLimit
    /\ now = 1
    /\ hist[last.a].observed
    /\ \E i \in DOMAIN accounts[last.a].transactions :
          accounts[last.a].transactions[i].transaction_type = "withdrawal"

\* the sum of the balances of all the accounts of a ledger
TotalBalance(accts) ==
    SumBalance(accts, {"Checking", "Savings"}, Len(accts))

\* C25: transfer, failed or not, leaves every account that is neither its
\* source nor its destination as it was, adds and removes no account and
\* leaves the sum of all balances as it was; that sum changes only in
\* create_account, deposit, withdraw and the application of interest
TransferFrame ==
    [][/\ last'.op = "transfer"
            => /\ DOMAIN accounts' = DOMAIN accounts
               /\ \A n \in DOMAIN accounts \ {last'.a, last'.b} :
                      accounts'[n] = accounts[n]
               /\ TotalBalance(accounts') = TotalBalance(accounts)
       /\ TotalBalance(accounts') # TotalBalance(accounts)
            => last'.op \in {"create_account", "deposit", "withdraw", "apply_interest",
                             "apply_interest_to_savings_accounts"}]_vars

\* a transfer between two accounts of a ledger of 3 has returned False, the
\* third being a savings account
TransferredBesideThird ==
    /\ last.op = "transfer"
    /\ last.returned = "False"
    /\ Len(accounts) = FrameAccounts
    /\ \E n \in DOMAIN accounts \ {last.a, last.b} : accounts[n].kind = "Savings"

====
